---------------------------- MODULE Spec2Model ----------------------------
(***************************************************************************)
(* Model of the recommendation engine of app-best-llm                      *)
(* (src/src/recommender.py): the catalog load of Recommender.__init__,     *)
(* classify_scenario, recommend, get_all_categories and get_tool_by_id.    *)
(* The chat wizard of src/app.py, which drives the engine from the        *)
(* session state of the page, is the specification SpecApp.                *)
(*                                                                         *)
(* Conventions                                                             *)
(*  - A Python dict is a TLA+ function whose DOMAIN is the set of keys     *)
(*    that are present; Get(d, k, default) is dict.get.                    *)
(*  - A text is a sequence of characters.  A character outside ASCII is    *)
(*    written as its Unicode code point ("u4EE3"); str.lower() changes     *)
(*    ASCII letters only on these texts.                                   *)
(*  - Scores are fixed-point numbers with three decimals (8.0 is 8000),    *)
(*    so that score * 0.7 and value * 0.1 are exact on the catalog values  *)
(*    used here (multiples of 0.1).  Python computes in binary floating    *)
(*    point; the order of the operations is kept as in the source.         *)
(*  - A ToolResult refers to its catalog record: its field tool is the     *)
(*    position of the record in self.tools (Python keeps a reference to    *)
(*    the same dict, not a copy).                                          *)
(*  - A call either returns a value or raises: an outcome is               *)
(*    [kind |-> "return", value |-> v] or [kind |-> "raise", exc |-> e].   *)
(***************************************************************************)
EXTENDS Integers, Sequences, FiniteSets

VARIABLES
    source,     \* what the data file at db_path holds
    status,     \* "new" (not constructed), "loaded", "failed"
    loadExc,    \* the exception the constructor raised, or None
    tools,      \* self.tools of the constructed Recommender
    loaded,     \* history: self.tools as it was right after load
    recommended,\* history: a recommend call was made and its outcome taken
    last,       \* the call the caller has made last: operation, arguments, outcome
    session_state, \* st.session_state of the chat wizard (src/app.py)
    chosen      \* history: what the user entered and clicked since the page
                \* was opened or reset

vars == <<source, status, loadExc, tools, loaded, recommended, last,
          session_state, chosen>>

None == "None"

Range(s) == {s[i] : i \in DOMAIN s}

Min2(a, b) == IF a <= b THEN a ELSE b

\* dict.get(key, default)
Get(d, k, default) == IF k \in DOMAIN d THEN d[k] ELSE default

Return(v) == [kind |-> "return", value |-> v]

Raise(e) == [kind |-> "raise", exc |-> e]

(***************************************************************************)
(* Bounds of the model.                                                    *)
(***************************************************************************)
MaxTools == 3

MaxTopN == 2

MaxChunks == 3

(***************************************************************************)
(* Module constants of recommender.py.                                     *)
(***************************************************************************)
CATEGORY_KEYWORDS ==
  <<
    [category |-> "coding", keywords |-> <<
        <<"u4EE3", "u7801">>,
        <<"u7F16", "u7A0B">>,
        <<"u5F00", "u53D1">>,
        <<"d", "e", "b", "u", "g">>,
        <<"u8C03", "u8BD5">>,
        <<"u91CD", "u6784">>,
        <<"A", "P", "I">>,
        <<"u7A0B", "u5E8F">>,
        <<"u8F6F", "u4EF6">>,
        <<"u811A", "u672C">>>>],
    [category |-> "writing", keywords |-> <<
        <<"u5199", "u4F5C">>,
        <<"u6587", "u7AE0">>,
        <<"u535A", "u5BA2">>,
        <<"u6587", "u6848">>,
        <<"u5185", "u5BB9">>,
        <<"u7FFB", "u8BD1">>,
        <<"u90AE", "u4EF6">>,
        <<"u62A5", "u544A">>,
        <<"u6587", "u6863">>,
        <<"u8BBA", "u6587">>>>],
    [category |-> "image", keywords |-> <<
        <<"u56FE", "u7247">>,
        <<"u56FE", "u50CF">>,
        <<"u7ED8", "u56FE">>,
        <<"u8BBE", "u8BA1">>,
        <<"u63D2", "u753B">>,
        <<"u6D77", "u62A5">>,
        <<"u89C6", "u89C9">>,
        <<"u7F8E", "u672F">>,
        <<"u751F", "u56FE">>>>],
    [category |-> "audio", keywords |-> <<
        <<"u8BED", "u97F3">>,
        <<"u97F3", "u9891">>,
        <<"u97F3", "u4E50">>,
        <<"u914D", "u97F3">>,
        <<"u8F6C", "u5F55">>,
        <<"u5B57", "u5E55">>,
        <<"u64AD", "u5BA2">>,
        <<"u6B4C", "u66F2">>>>],
    [category |-> "research", keywords |-> <<
        <<"u641C", "u7D22">>,
        <<"u8C03", "u7814">>,
        <<"u67E5", "u627E">>,
        <<"u4FE1", "u606F">>,
        <<"u8D44", "u6599">>,
        <<"u5B66", "u672F">>,
        <<"u5206", "u6790">>,
        <<"u65B0", "u95FB">>>>],
    [category |-> "data", keywords |-> <<
        <<"u6570", "u636E">>,
        <<"u5206", "u6790">>,
        <<"u7EDF", "u8BA1">>,
        <<"u56FE", "u8868">>,
        <<"u53EF", "u89C6", "u5316">>,
        <<"E", "x", "c", "e", "l">>,
        <<"C", "S", "V">>,
        <<"u6570", "u636E", "u5E93">>>>],
    [category |-> "video", keywords |-> <<
        <<"u89C6", "u9891">>,
        <<"u77ED", "u7247">>,
        <<"u52A8", "u753B">>,
        <<"u5F71", "u7247">>,
        <<"u526A", "u8F91">>,
        <<"u7279", "u6548">>>>],
    [category |-> "foundation", keywords |-> <<
        <<"u5BF9", "u8BDD">>,
        <<"u804A", "u5929">>,
        <<"u95EE", "u7B54">>,
        <<"u63A8", "u7406">>,
        <<"u901A", "u7528">>,
        <<"u52A9", "u624B">>>>]
  >>

BUDGET_LEVELS == [free |-> 0, low |-> 20, medium |-> 50, high |-> 999]

TECH_LEVELS == [beginner |-> 1, intermediate |-> 2, advanced |-> 3]

(***************************************************************************)
(* Texts: str.lower() and the substring test `kw in text`.                 *)
(***************************************************************************)
AsciiLower ==
    [A |-> "a", B |-> "b", C |-> "c", D |-> "d", E |-> "e", F |-> "f", G |-> "g",
     H |-> "h", I |-> "i", J |-> "j", K |-> "k", L |-> "l", M |-> "m", N |-> "n",
     O |-> "o", P |-> "p", Q |-> "q", R |-> "r", S |-> "s", T |-> "t", U |-> "u",
     V |-> "v", W |-> "w", X |-> "x", Y |-> "y", Z |-> "z"]

LowerChar(ch) == IF ch \in DOMAIN AsciiLower THEN AsciiLower[ch] ELSE ch

\* str.lower()
Lower(text) == [i \in 1..Len(text) |-> LowerChar(text[i])]

\* needle in hay
Contains(needle, hay) ==
    \E i \in 0..(Len(hay) - Len(needle)) : SubSeq(hay, i + 1, i + Len(needle)) = needle

(***************************************************************************)
(* sorted(..., reverse=True) and list.sort(reverse=True): a stable sort,   *)
(* descending by key, of a sequence of records with a field key.  Elements *)
(* are inserted one by one, each behind the elements whose key is >= its   *)
(* own, so equal keys keep their input order.                              *)
(***************************************************************************)
\* Variant: the element goes before the elements of equal key, so equal keys
\* come out in reverse input order.
InsertDescTiesReversed(sorted, x) ==
    LET k == Cardinality({i \in 1..Len(sorted) : sorted[i].key > x.key})
    IN  SubSeq(sorted, 1, k) \o <<x>> \o SubSeq(sorted, k + 1, Len(sorted))

InsertDesc(sorted, x) ==
    LET k == Cardinality({i \in 1..Len(sorted) : sorted[i].key >= x.key})
    IN  SubSeq(sorted, 1, k) \o <<x>> \o SubSeq(sorted, k + 1, Len(sorted))

RECURSIVE SortDesc(_)
SortDesc(s) ==
    IF s = <<>> THEN <<>>
    ELSE InsertDesc(SortDesc(SubSeq(s, 1, Len(s) - 1)), s[Len(s)])

(***************************************************************************)
(* Recommender.classify_scenario                                           *)
(***************************************************************************)
\* Variant: text_lower.count(kw.lower()) summed over the keywords, every
\* occurrence counted.
KeywordOccurrences(keywords, text_lower) ==
    LET occurrences(kw) ==
            Cardinality({i \in 0..(Len(text_lower) - Len(kw)) :
                            SubSeq(text_lower, i + 1, i + Len(kw)) = kw})
        RECURSIVE total(_)
        total(k) == IF k = 0 THEN 0 ELSE total(k - 1) + occurrences(Lower(keywords[k]))
    IN  total(Len(keywords))

\* count = sum(1 for kw in keywords if kw.lower() in text_lower)
KeywordCount(keywords, text_lower) ==
    Cardinality({k \in 1..Len(keywords) : Contains(Lower(keywords[k]), text_lower)})

\* the dict scores, in insertion order: one entry per category whose count is > 0
CategoryScores(text_lower) ==
    LET entry(c) == [key  |-> KeywordCount(CATEGORY_KEYWORDS[c].keywords, text_lower),
                     item |-> CATEGORY_KEYWORDS[c].category]
        all == [c \in 1..Len(CATEGORY_KEYWORDS) |-> entry(c)]
        positive(e) == e.key > 0
    IN  SelectSeq(all, positive)

classify_scenario(text) ==
    LET scores == CategoryScores(Lower(text))
        ranked == SortDesc(scores)
    IN  IF scores = <<>> THEN <<"foundation">>
        ELSE [i \in 1..Len(ranked) |-> ranked[i].item]

(***************************************************************************)
(* Texts a caller passes to classify_scenario: pieces, concatenated.  A    *)
(* keyword can span two pieces, and a piece can hold two keywords.         *)
(***************************************************************************)
Chunks ==
    { <<"a", "P", "i">>,                \* "API" in another case, a keyword of coding
      <<"u6570", "u636E", "u5E93">>,    \* "database": holds "data" too, both keywords of data
      <<"u5206">>,                      \* the first character of "analysis"
      <<"u6790">>,                      \* the second; "analysis" is a keyword of research and of data
      <<"u89C6", "u9891">>,             \* "video", a keyword of video
      <<"u5BF9", "u8BDD">>,             \* "dialogue", a keyword of foundation
      <<"u5417">> }                     \* a character of no keyword

RECURSIVE TextsUpTo(_)
TextsUpTo(n) ==
    IF n = 0 THEN {<<>>}
    ELSE LET shorter == TextsUpTo(n - 1)
         IN  shorter \cup {t \o c : t \in shorter, c \in Chunks}

\* every text of up to MaxChunks pieces
Texts == TextsUpTo(MaxChunks)

\* the texts of at most one piece
ShortTexts == TextsUpTo(1)

(***************************************************************************)
(* Catalogs.  The records a data file holds are drawn from ToolPool, each   *)
(* at most once; a record is a dict, so a key the file leaves out is       *)
(* absent from its DOMAIN.  Scores are in thousandths.                     *)
(***************************************************************************)
ToolA ==    \* free tier, no paid plan
    [id |-> "a", name |-> "A", category |-> "coding", technical_level |-> "beginner",
     scores |-> [overall |-> 8000, value |-> 7000],
     pricing |-> [free_tier |-> TRUE, paid_plans |-> <<>>]]

ToolB ==    \* paid only, cheapest plan 10
    [id |-> "b", name |-> "B", category |-> "coding", technical_level |-> "beginner",
     scores |-> [overall |-> 8000, value |-> 9000],
     pricing |-> [free_tier |-> FALSE,
                  paid_plans |-> <<[name |-> "pro", price |-> 10, unit |-> "month"]>>]]

ToolC ==    \* paid only, cheapest plan 30, advanced
    [id |-> "c", name |-> "C", category |-> "coding", technical_level |-> "advanced",
     scores |-> [overall |-> 9000, value |-> 2000],
     pricing |-> [free_tier |-> FALSE,
                  paid_plans |-> <<[name |-> "team", price |-> 60, unit |-> "month"],
                                   [name |-> "solo", price |-> 30, unit |-> "month"]>>]]

ToolD ==    \* free tier and a paid plan above every ceiling but high; no technical_level
    [id |-> "d", name |-> "D", category |-> "writing",
     scores |-> [overall |-> 7900, value |-> 7000],
     pricing |-> [free_tier |-> TRUE,
                  paid_plans |-> <<[name |-> "max", price |-> 100, unit |-> "month"]>>]]

ToolE ==    \* no pricing, a technical_level TECH_LEVELS does not know
    [id |-> "e", name |-> "E", category |-> "coding", technical_level |-> "expert",
     scores |-> [overall |-> 8400, value |-> 5000]]

ToolF ==    \* no scores
    [id |-> "f", name |-> "F", category |-> "coding", technical_level |-> "beginner",
     pricing |-> [free_tier |-> FALSE, paid_plans |-> <<>>]]

ToolG ==    \* no id and no category
    [name |-> "G", technical_level |-> "beginner",
     scores |-> [overall |-> 9500, value |-> 9000],
     pricing |-> [free_tier |-> TRUE, paid_plans |-> <<>>]]

ToolPool == {ToolA, ToolB, ToolC, ToolD, ToolE, ToolF, ToolG}

RECURSIVE CatalogsUpTo(_)
CatalogsUpTo(n) ==
    IF n = 0 THEN {<<>>}
    ELSE LET shorter == CatalogsUpTo(n - 1)
         IN  shorter \cup {Append(c, t) : c \in shorter, t \in ToolPool}

\* the catalogs of up to n records, no record twice
Catalogs(n) == {c \in CatalogsUpTo(n) : Cardinality(Range(c)) = Len(c)}

\* Python values whose type the code does not fix: None, a list, a reference
\* to the catalog record at a position of self.tools.
PyNone == [type |-> "None"]

PyList(items) == [type |-> "list", items |-> items]

PyRef(i) == [type |-> "dict", at |-> i]

\* What open() and yaml.safe_load make of the data file.
Sources ==
    {[file |-> "missing"],                                   \* no file at db_path
     [file |-> "malformed"],                                 \* not YAML
     [file |-> "yaml", root |-> "None"],                     \* an empty document
     [file |-> "yaml", root |-> "dict", data |-> [version |-> 1]],        \* no tools key
     [file |-> "yaml", root |-> "dict", data |-> [tools |-> PyNone]]}     \* "tools:" left empty
    \cup {[file |-> "yaml", root |-> "dict", data |-> [tools |-> PyList(c)]] :
            c \in Catalogs(MaxTools)}

(***************************************************************************)
(* Recommender.__init__                                                    *)
(***************************************************************************)
\* open() raises when there is no file, yaml.safe_load when the text is not YAML,
\* data.get when the document is not a mapping; nothing else is looked at.
LoadOutcome(src) ==
    IF src.file = "missing" THEN Raise("FileNotFoundError")
    ELSE IF src.file = "malformed" THEN Raise("YAMLError")
    ELSE IF src.root # "dict" THEN Raise("AttributeError")
    ELSE Return(Get(src.data, "tools", PyList(<<>>)))

(***************************************************************************)
(* Recommender.recommend                                                   *)
(***************************************************************************)
ReasonFreeTier == "has free tier"

ReasonTechLevel == "matches your technical level"

\* Variant: BUDGET_LEVELS.get(budget, 0), an unknown budget read as no budget.
BudgetLimitDefaultZero(budget) == Get(BUDGET_LEVELS, budget, 0)

\* BUDGET_LEVELS.get(budget, 50)
BudgetLimit(budget) == Get(BUDGET_LEVELS, budget, 50)

\* TECH_LEVELS.get(tech_level, 1)
UserTech(tech_level) == Get(TECH_LEVELS, tech_level, 1)

\* TECH_LEVELS.get(tool.get("technical_level", "beginner"), 1)
ToolTech(tool) == Get(TECH_LEVELS, Get(tool, "technical_level", "beginner"), 1)

\* Variant: a record without category passes the filter.
CategoryMatchesOrMissing(tool, categories) ==
    "category" \notin DOMAIN tool \/ tool.category \in Range(categories)

\* tool.get("category") not in categories: continue
CategoryMatches(tool, categories) == Get(tool, "category", None) \in Range(categories)

\* min((p.get("price", 0) for p in tool.get("pricing", {}).get("paid_plans", [])), default=0)
MinPaidPrice(tool) ==
    LET plans == Get(Get(tool, "pricing", <<>>), "paid_plans", <<>>)
        prices == {Get(plans[p], "price", 0) : p \in 1..Len(plans)}
    IN  IF Len(plans) = 0 THEN 0
        ELSE CHOOSE m \in prices : \A q \in prices : m <= q

\* tool.get("pricing", {}).get("free_tier", False)
HasFreeTier(tool) == Get(Get(tool, "pricing", <<>>), "free_tier", FALSE)

\* Variant: no hard filter, the record without free tier is left to the penalty.
BudgetExcludesNothing(budget, has_free) == FALSE

\* if budget == "free" and not has_free: continue
BudgetExcludes(budget, has_free) == budget = "free" /\ ~has_free

\* Variant: the price is tested first, so a record with a free tier and a paid
\* plan above the ceiling takes the penalty.
BudgetRulePenaltyFirst(acc, has_free, min_price, budget_limit) ==
    IF min_price > budget_limit
    THEN [acc EXCEPT !.score = (@ * 7) \div 10]
    ELSE IF has_free
    THEN [score |-> acc.score + 300, reasons |-> Append(acc.reasons, ReasonFreeTier)]
    ELSE acc

\* the budget rule on the accumulator acc = [score, reasons]
BudgetRule(acc, has_free, min_price, budget_limit) ==
    IF ~has_free /\ min_price > budget_limit
    THEN [acc EXCEPT !.score = (@ * 7) \div 10]
    ELSE IF has_free
    THEN [score |-> acc.score + 300, reasons |-> Append(acc.reasons, ReasonFreeTier)]
    ELSE acc

\* the technical level rule on the accumulator
TechRule(acc, tool_tech, user_tech) ==
    IF tool_tech <= user_tech
    THEN [score |-> acc.score + 200, reasons |-> Append(acc.reasons, ReasonTechLevel)]
    ELSE IF tool_tech > user_tech + 1
    THEN [acc EXCEPT !.score = @ - 500]
    ELSE acc

\* Variant: tool["scores"]["overall"] = score before the append, the accumulator
\* written into the catalog record.
AppendResultInPlace(st, i, score, reasons) ==
    [st EXCEPT !.tools[i].scores.overall = score,
               !.results = Append(@, [tool |-> i, score |-> score, match_reasons |-> reasons])]

\* results.append(ToolResult(tool=tool, score=score, match_reasons=reasons)):
\* the record is referred to, and nothing is written into it.
AppendResult(st, i, score, reasons) ==
    [st EXCEPT !.results = Append(@, [tool |-> i, score |-> score, match_reasons |-> reasons])]

\* One pass of the loop body, for the record at position i.  st holds the
\* catalog, the results so far and the exception raised, if any.
ScoreTool(st, i, args) ==
    LET tool == st.tools[i]
        budget_limit == BudgetLimit(args.budget)
        user_tech == UserTech(args.tech_level)
        tool_tech == ToolTech(tool)
        has_free == HasFreeTier(tool)
    IN  IF ~CategoryMatches(tool, args.categories) THEN st
        ELSE IF "scores" \notin DOMAIN tool \/ "overall" \notin DOMAIN tool.scores
        THEN [st EXCEPT !.exc = "KeyError"]
        ELSE IF BudgetExcludes(args.budget, has_free) THEN st
        ELSE LET acc0 == [score |-> tool.scores.overall, reasons |-> <<>>]
                 acc1 == BudgetRule(acc0, has_free, MinPaidPrice(tool), budget_limit)
                 acc2 == TechRule(acc1, tool_tech, user_tech)
             IN  IF "value" \notin DOMAIN tool.scores
                 THEN [st EXCEPT !.exc = "KeyError"]
                 ELSE AppendResult(st, i, acc2.score + tool.scores.value \div 10, acc2.reasons)

RECURSIVE ScoreLoop(_, _, _)
ScoreLoop(st, i, args) ==
    IF i > Len(st.tools) \/ st.exc # None THEN st
    ELSE ScoreLoop(ScoreTool(st, i, args), i + 1, args)

\* results.sort(key=lambda r: r.score, reverse=True)
SortByScore(results) ==
    LET keyed == [i \in 1..Len(results) |-> [key |-> results[i].score, item |-> results[i]]]
        sorted == SortDesc(keyed)
    IN  [i \in 1..Len(sorted) |-> sorted[i].item]

\* results[:top_n]
TopSlice(results, top_n) ==
    LET stop == IF top_n >= 0 THEN Min2(top_n, Len(results)) ELSE Len(results) + top_n
    IN  IF stop <= 0 THEN <<>> ELSE SubSeq(results, 1, stop)

\* The call on self.tools = self_tools: the catalog afterwards and the outcome.
recommend(self_tools, args) ==
    IF self_tools.type # "list"
    THEN [tools |-> self_tools, outcome |-> Raise("TypeError")]
    ELSE LET st == ScoreLoop([tools |-> self_tools.items, results |-> <<>>, exc |-> None],
                             1, args)
         IN  [tools |-> PyList(st.tools),
              outcome |-> IF st.exc # None THEN Raise(st.exc)
                          ELSE Return(TopSlice(SortByScore(st.results), args.top_n))]

(***************************************************************************)
(* Recommender.get_all_categories and Recommender.get_tool_by_id           *)
(***************************************************************************)
\* The category names in the order sorted() gives strings.
SortedNames ==
    <<"audio", "coding", "data", "foundation", "image", "research", "video", "writing">>

get_all_categories(self_tools) ==
    IF self_tools.type # "list" THEN Raise("TypeError")
    ELSE IF \E i \in 1..Len(self_tools.items) : "category" \notin DOMAIN self_tools.items[i]
    THEN Raise("KeyError")
    ELSE LET present == {self_tools.items[i].category : i \in 1..Len(self_tools.items)}
             isPresent(c) == c \in present
         IN  Return(SelectSeq(SortedNames, isPresent))

\* next((t for t in self.tools if t["id"] == tool_id), None), from position i on
RECURSIVE FirstWithId(_, _, _)
FirstWithId(items, i, tool_id) ==
    IF i > Len(items) THEN Return(PyNone)
    ELSE IF "id" \notin DOMAIN items[i] THEN Raise("KeyError")
    ELSE IF items[i].id = tool_id THEN Return(PyRef(i))
    ELSE FirstWithId(items, i + 1, tool_id)

get_tool_by_id(self_tools, tool_id) ==
    IF self_tools.type # "list" THEN Raise("TypeError")
    ELSE FirstWithId(self_tools.items, 1, tool_id)

(***************************************************************************)
(* The arguments callers pass.                                             *)
(***************************************************************************)
CategoryLists == {<<"coding">>, <<"writing", "coding">>}

Budgets == {"free", "low", "medium", "high", "unlimited"}

TechLevelArgs == {"beginner", "intermediate", "advanced", "expert"}

RecommendArgs ==
    [categories : CategoryLists, budget : Budgets, tech_level : TechLevelArgs,
     top_n : 1..MaxTopN]

ToolIds == {"a", "d", "zz"}

NoCall == [op |-> "none"]

(***************************************************************************)
(* The chat wizard of src/app.py.  Streamlit runs the script from top to   *)
(* bottom once when the page is opened and once more after every user      *)
(* event; st.session_state is the only state that survives from one run    *)
(* to the next.  It is a dict: a function from the keys that are present.  *)
(* The text of a message is a sequence of characters like every text       *)
(* here; the three long fixed messages and the fixed parts of the          *)
(* formatted ones are written as one piece each.                           *)
(***************************************************************************)
CATEGORY_NAMES ==
    [coding |-> <<"u7F16", "u7A0B", "u5F00", "u53D1">>,
     writing |-> <<"u5199", "u4F5C", "u52A9", "u624B">>,
     image |-> <<"u56FE", "u50CF", "u751F", "u6210">>,
     audio |-> <<"u8BED", "u97F3", "u5904", "u7406">>,
     research |-> <<"u641C", "u7D22", "u4E0E", "u8C03", "u7814">>,
     data |-> <<"u6570", "u636E", "u5206", "u6790">>,
     video |-> <<"u89C6", "u9891", "u751F", "u6210">>,
     foundation |-> <<"u57FA", "u7840", "u6A21", "u578B">>]

BUDGET_NAMES ==
    [free |-> <<"u4EC5", "u514D", "u8D39", "u5DE5", "u5177">>,
     low |-> <<"u4F4E", "u9884", "u7B97", "uFF08", "u2264", "$", "2", "0", "/",
               "u6708", "uFF09">>,
     medium |-> <<"u4E2D", "u7B49", "u9884", "u7B97", "uFF08", "u2264", "$", "5",
                  "0", "/", "u6708", "uFF09">>,
     high |-> <<"u4E0D", "u9650", "u9884", "u7B97">>]

TECH_NAMES ==
    [beginner |-> <<"u521D", "u5B66", "u8005">>,
     intermediate |-> <<"u4E2D", "u7EA7", "u7528", "u6237">>,
     advanced |-> <<"u9AD8", "u7EA7", "u7528", "u6237", "/", "u5F00", "u53D1", "u8005">>]

WELCOME_MSG == <<"WELCOME_MSG">>

BUDGET_MSG == <<"BUDGET_MSG">>

TECH_MSG == <<"TECH_MSG">>

\* the keys of budget_options and of tech_options, the buttons of steps 2 and 3
budget_options == {"free", "low", "medium", "high"}

tech_options == {"beginner", "intermediate", "advanced"}

\* top_n=3 in handle_tech_input
WizardTopN == 3

EmptyDict == [k \in {} |-> 0]

SessionDefaults ==
    [step |-> 0, messages |-> <<>>, user_task |-> <<>>, categories |-> <<>>,
     budget |-> "medium", tech_level |-> "beginner", results |-> <<>>]

\* for k, v in defaults.items(): if k not in st.session_state: ... = v
_init_state(state) ==
    [k \in DOMAIN state \cup DOMAIN SessionDefaults |->
        IF k \in DOMAIN state THEN state[k] ELSE SessionDefaults[k]]

add_message(state, role, content) ==
    [state EXCEPT !.messages = Append(@, [role |-> role, content |-> content])]

ResetKeys ==
    {"step", "messages", "user_task", "categories", "budget", "tech_level", "results"}

\* reset() up to st.rerun(): the keys are deleted, then _init_state()
reset(state) ==
    _init_state([k \in DOMAIN state \ ResetKeys |-> state[k]])

handle_step_0(state) ==
    IF state.messages = <<>> THEN add_message(state, "assistant", WELCOME_MSG)
    ELSE state

\* sep.join(texts)
RECURSIVE Join(_, _)
Join(sep, texts) ==
    IF texts = <<>> THEN <<>>
    ELSE IF Len(texts) = 1 THEN texts[1]
    ELSE texts[1] \o sep \o Join(sep, Tail(texts))

handle_task_input(state, user_input) ==
    LET s1 == [state EXCEPT !.user_task = user_input]
        categories == classify_scenario(user_input)
        s2 == [s1 EXCEPT !.categories = categories]
        first2 == SubSeq(categories, 1, Min2(2, Len(categories)))
        \* CATEGORY_NAMES.get(c, c)
        cat_names == Join(<<"u3001">>,
                          [i \in DOMAIN first2 |->
                              Get(CATEGORY_NAMES, first2[i], <<first2[i]>>)])
        s3 == add_message(s2, "assistant",
                          <<"scene: **">> \o cat_names \o <<"**">> \o BUDGET_MSG)
    IN  [s3 EXCEPT !.step = 2]

handle_budget_input(state, budget) ==
    LET s1 == [state EXCEPT !.budget = budget]
        s2 == add_message(s1, "assistant",
                          <<"budget: **">> \o BUDGET_NAMES[budget] \o <<"**">> \o TECH_MSG)
    IN  [s2 EXCEPT !.step = 3]

\* The step is set before recommend is called: when recommend raises, the
\* assignment of the results is not reached and the exception leaves the
\* handler.  The value is the session state, self.tools and the outcome.
handle_tech_input(state, self_tools, tech) ==
    LET s1 == [state EXCEPT !.tech_level = tech]
        s2 == add_message(s1, "assistant",
                          <<"level: **">> \o TECH_NAMES[tech] \o <<"**">> \o <<"analysing">>)
        s3 == [s2 EXCEPT !.step = 4]
        r  == recommend(self_tools,
                        [categories |-> s3.categories, budget |-> s3.budget,
                         tech_level |-> s3.tech_level, top_n |-> WizardTopN])
    IN  IF r.outcome.kind = "return"
        THEN [state |-> [s3 EXCEPT !.results = r.outcome.value],
              tools |-> r.tools, outcome |-> Return(PyNone)]
        ELSE [state |-> s3, tools |-> r.tools, outcome |-> r.outcome]

\* What the next run of the script does to the session before it shows the
\* widgets: _init_state() at the top, then handle_step_0().
ScriptTop(state) == handle_step_0(_init_state(state))

\* what the user can type into st.chat_input: a text that is not empty
TaskTexts == ShortTexts \ {<<>>}

NothingChosen == [task |-> <<>>, budget |-> None, tech_level |-> None]

(***************************************************************************)
(* The state machine: the constructor, then calls one at a time.           *)
(***************************************************************************)
Init ==
    /\ source \in Sources
    /\ status = "new"
    /\ loadExc = None
    /\ tools = PyNone
    /\ loaded = PyNone
    /\ recommended = FALSE
    /\ last = NoCall
    /\ session_state = _init_state(EmptyDict)
    /\ chosen = NothingChosen

\* Recommender.__init__: the data file is read and self.tools is set
Construct ==
    /\ status = "new"
    /\ LET out == LoadOutcome(source)
       IN  IF out.kind = "return"
           THEN /\ status' = "loaded"
                /\ tools' = out.value
                /\ loaded' = out.value
                /\ UNCHANGED loadExc
           ELSE /\ status' = "failed"
                /\ loadExc' = out.exc
                /\ UNCHANGED <<tools, loaded>>
    /\ UNCHANGED <<source, recommended, last>>

\* recommender = Recommender()
Load == Construct /\ UNCHANGED <<session_state, chosen>>

CanCall == status = "loaded" /\ last = NoCall

Classify(texts) ==
    /\ CanCall
    /\ \E text \in texts :
         last' = [op |-> "classify_scenario", text |-> text,
                  outcome |-> Return(classify_scenario(text))]
    /\ UNCHANGED <<source, status, loadExc, tools, loaded, recommended,
                   session_state, chosen>>

Recommend ==
    /\ CanCall
    /\ \E args \in RecommendArgs :
         LET r == recommend(tools, args)
         IN  /\ tools' = r.tools
             /\ last' = [op |-> "recommend", args |-> args, outcome |-> r.outcome]
    /\ UNCHANGED <<source, status, loadExc, loaded, recommended,
                   session_state, chosen>>

GetAllCategories ==
    /\ CanCall
    /\ last' = [op |-> "get_all_categories", outcome |-> get_all_categories(tools)]
    /\ UNCHANGED <<source, status, loadExc, tools, loaded, recommended,
                   session_state, chosen>>

GetToolById ==
    /\ CanCall
    /\ \E tool_id \in ToolIds :
         last' = [op |-> "get_tool_by_id", tool_id |-> tool_id,
                  outcome |-> get_tool_by_id(tools, tool_id)]
    /\ UNCHANGED <<source, status, loadExc, tools, loaded, recommended,
                   session_state, chosen>>

\* The caller takes the outcome of the call and goes on.
CallerContinues ==
    /\ last # NoCall
    /\ last' = NoCall
    /\ recommended' = (recommended \/ last.op = "recommend")
    /\ UNCHANGED <<source, status, loadExc, tools, loaded, session_state, chosen>>

Next ==
    \/ Load
    \/ Classify(ShortTexts)
    \/ Recommend
    \/ GetAllCategories
    \/ GetToolById
    \/ CallerContinues

Spec == Init /\ [][Next]_vars

(***************************************************************************)
(* classify_scenario reads nothing of the Recommender: the specification   *)
(* for it alone loads a catalog without records and classifies every text  *)
(* of Texts.                                                               *)
(***************************************************************************)
InitClassify == Init /\ source = [file |-> "yaml", root |-> "dict", data |-> [version |-> 1]]

NextClassify ==
    \/ Load
    \/ Classify(Texts)
    \/ CallerContinues

SpecClassify == InitClassify /\ [][NextClassify]_vars

(***************************************************************************)
(* The chat wizard as a state machine.  One step is one run of the script  *)
(* of src/app.py: the handler of the event that started the run, st.rerun  *)
(* and, of the run that follows, what it does to the session before it     *)
(* waits for the next event.  Every run constructs the Recommender again   *)
(* from the same data file, so self.tools is the same in every run and is  *)
(* kept here from the first one.  When the constructor raises, the script  *)
(* ends there in every run and shows no widget.  last holds the event of   *)
(* the run and how the run ended.                                          *)
(***************************************************************************)
WidgetsShown == status = "loaded"

\* the first run: Recommender(), then handle_step_0()
OpenPage ==
    /\ Construct
    /\ session_state' = IF LoadOutcome(source).kind = "return"
                        THEN handle_step_0(session_state)
                        ELSE session_state
    /\ UNCHANGED chosen

\* if user_input := st.chat_input(...), shown while step in (0, 1)
ChatInput ==
    /\ WidgetsShown
    /\ session_state.step \in {0, 1}
    /\ \E user_input \in TaskTexts :
         /\ session_state' =
              ScriptTop(handle_task_input(add_message(session_state, "user", user_input),
                                          user_input))
         /\ chosen' = [chosen EXCEPT !.task = user_input]
    /\ last' = [op |-> "handle_task_input", outcome |-> Return(PyNone)]
    /\ UNCHANGED <<source, status, loadExc, tools, loaded, recommended>>

\* the buttons of step 2
BudgetButton ==
    /\ WidgetsShown
    /\ session_state.step = 2
    /\ \E key \in budget_options :
         /\ session_state' =
              ScriptTop(handle_budget_input(
                          add_message(session_state, "user", BUDGET_NAMES[key]), key))
         /\ chosen' = [chosen EXCEPT !.budget = key]
    /\ last' = [op |-> "handle_budget_input", outcome |-> Return(PyNone)]
    /\ UNCHANGED <<source, status, loadExc, tools, loaded, recommended>>

\* the buttons of step 3; st.rerun() is reached only when the handler returns
TechButton ==
    /\ WidgetsShown
    /\ session_state.step = 3
    /\ \E key \in tech_options :
         LET h == handle_tech_input(add_message(session_state, "user", TECH_NAMES[key]),
                                    tools, key)
         IN  /\ session_state' = IF h.outcome.kind = "return"
                                 THEN ScriptTop(h.state) ELSE h.state
             /\ tools' = h.tools
             /\ last' = [op |-> "handle_tech_input", outcome |-> h.outcome]
             /\ chosen' = [chosen EXCEPT !.tech_level = key]
    /\ UNCHANGED <<source, status, loadExc, loaded, recommended>>

\* the restart button, shown while step > 0
ResetButton ==
    /\ WidgetsShown
    /\ session_state.step > 0
    /\ session_state' = ScriptTop(reset(session_state))
    /\ chosen' = NothingChosen
    /\ last' = [op |-> "reset", outcome |-> Return(PyNone)]
    /\ UNCHANGED <<source, status, loadExc, tools, loaded, recommended>>

NextApp ==
    \/ OpenPage
    \/ ChatInput
    \/ BudgetButton
    \/ TechButton
    \/ ResetButton

SpecApp == Init /\ [][NextApp]_vars

(***************************************************************************)
(* Vocabulary of the properties, stated on the records themselves and not  *)
(* through the operators above.                                            *)
(***************************************************************************)
RecommendReturned == last.op = "recommend" /\ last.outcome.kind = "return"

\* the records of the catalog held, none when self.tools is no list
Held == IF tools.type = "list" THEN tools.items ELSE <<>>

RecordHasFreeTier(t) ==
    /\ "pricing" \in DOMAIN t
    /\ "free_tier" \in DOMAIN t.pricing
    /\ t.pricing.free_tier

RecordInCategories(t, categories) ==
    /\ "category" \in DOMAIN t
    /\ \E j \in DOMAIN categories : categories[j] = t.category

\* the positions of the records that survive filtering
Survivors(catalog, args) ==
    {i \in DOMAIN catalog :
        /\ RecordInCategories(catalog[i], args.categories)
        /\ ~(args.budget = "free" /\ ~RecordHasFreeTier(catalog[i]))}

\* the positions of the records a call returned
ReturnedPositions(results) == {results[k].tool : k \in DOMAIN results}

(***************************************************************************)
(* C1.  Every result recommend returns refers to a catalog record that has *)
(* a category, and that category is one of the requested categories.       *)
(***************************************************************************)
C1_OnlyRequestedCategories ==
    RecommendReturned =>
        \A k \in DOMAIN last.outcome.value :
            /\ last.outcome.value[k].tool \in DOMAIN Held
            /\ RecordInCategories(Held[last.outcome.value[k].tool], last.args.categories)

\* recommend returned a record and left out, for its category alone, a record
\* without category and a record of another category
C1_Witness ==
    /\ RecommendReturned
    /\ last.outcome.value # <<>>
    /\ Len(last.outcome.value) < last.args.top_n
    /\ \E i \in DOMAIN Held : "category" \notin DOMAIN Held[i]
    /\ \E i \in DOMAIN Held :
          /\ "category" \in DOMAIN Held[i]
          /\ ~RecordInCategories(Held[i], last.args.categories)

(***************************************************************************)
(* C2.  With budget "free", recommend returns no record without a free     *)
(* tier (pricing.free_tier false or absent).                               *)
(***************************************************************************)
C2_FreeBudgetOnlyFreeTier ==
    (RecommendReturned /\ last.args.budget = "free") =>
        \A k \in DOMAIN last.outcome.value :
            RecordHasFreeTier(Held[last.outcome.value[k].tool])

\* a call with budget "free" returned a record and dropped a record of a
\* requested category that has no free tier
C2_Witness ==
    /\ RecommendReturned
    /\ last.args.budget = "free"
    /\ last.outcome.value # <<>>
    /\ Len(last.outcome.value) < last.args.top_n
    /\ \E i \in DOMAIN Held :
          /\ RecordInCategories(Held[i], last.args.categories)
          /\ ~RecordHasFreeTier(Held[i])

(***************************************************************************)
(* C3.  For positive top_n, recommend returns min(top_n, S) candidates, S  *)
(* the number of records that survive filtering, and an empty sequence     *)
(* rather than a failure when S is 0.                                      *)
(***************************************************************************)
C3_LengthIsMinOfTopNAndSurvivors ==
    (last.op = "recommend" /\ last.args.top_n > 0) =>
        /\ last.outcome.kind = "return"
        /\ Len(last.outcome.value) =
              Min2(last.args.top_n, Cardinality(Survivors(Held, last.args)))

\* C3 for the calls that return: the length is min(top_n, S)
C3_LengthWhenReturned ==
    (RecommendReturned /\ last.args.top_n > 0) =>
        Len(last.outcome.value) =
            Min2(last.args.top_n, Cardinality(Survivors(Held, last.args)))

(***************************************************************************)
(* The reference score of a surviving record, as the rules state it.       *)
(***************************************************************************)
Ceiling(budget) ==
    CASE budget = "free" -> 0
      [] budget = "low" -> 20
      [] budget = "high" -> 999
      [] OTHER -> 50

Ordinal(level) ==
    CASE level = "intermediate" -> 2
      [] level = "advanced" -> 3
      [] OTHER -> 1

RecordMinPaidPrice(t) ==
    IF "pricing" \in DOMAIN t /\ "paid_plans" \in DOMAIN t.pricing /\ t.pricing.paid_plans # <<>>
    THEN LET plans == t.pricing.paid_plans
             priceOf(p) == IF "price" \in DOMAIN plans[p] THEN plans[p].price ELSE 0
         IN  CHOOSE m \in {priceOf(p) : p \in DOMAIN plans} :
                 \A p \in DOMAIN plans : m <= priceOf(p)
    ELSE 0

RecordOrdinal(t) == IF "technical_level" \in DOMAIN t THEN Ordinal(t.technical_level) ELSE 1

OverBudget(t, args) == ~RecordHasFreeTier(t) /\ RecordMinPaidPrice(t) > Ceiling(args.budget)

FreeBonus(t, args) == RecordHasFreeTier(t)

TechBonus(t, args) == RecordOrdinal(t) <= Ordinal(args.tech_level)

TechPenalty(t, args) == RecordOrdinal(t) > Ordinal(args.tech_level) + 1

RefScore(t, args) ==
    LET afterBudget == IF OverBudget(t, args) THEN (t.scores.overall * 7) \div 10
                       ELSE IF FreeBonus(t, args) THEN t.scores.overall + 300
                       ELSE t.scores.overall
        afterTech == IF TechBonus(t, args) THEN afterBudget + 200
                     ELSE IF TechPenalty(t, args) THEN afterBudget - 500
                     ELSE afterBudget
    IN  afterTech + t.scores.value \div 10

RefReasons(t, args) ==
    (IF FreeBonus(t, args) THEN <<ReasonFreeTier>> ELSE <<>>)
        \o (IF TechBonus(t, args) THEN <<ReasonTechLevel>> ELSE <<>>)

(***************************************************************************)
(* C4.  The results are ordered by score, highest first; results of equal  *)
(* score are in catalog order; and they are the first top_n of that        *)
(* ordering of all survivors: every survivor left out comes behind every   *)
(* result (a lower score, or the same score and a later place in the       *)
(* catalog), and none is left out while fewer than top_n are returned.     *)
(***************************************************************************)
C4_RankedStableTopN ==
    RecommendReturned =>
        LET rs == last.outcome.value
            leftOut == Survivors(Held, last.args) \ ReturnedPositions(rs)
        IN  /\ \A k \in DOMAIN rs, l \in DOMAIN rs :
                  k < l => \/ rs[k].score > rs[l].score
                           \/ rs[k].score = rs[l].score /\ rs[k].tool < rs[l].tool
            /\ ReturnedPositions(rs) \subseteq Survivors(Held, last.args)
            /\ \A s \in leftOut, k \in DOMAIN rs :
                  \/ RefScore(Held[s], last.args) < rs[k].score
                  \/ RefScore(Held[s], last.args) = rs[k].score /\ s > rs[k].tool
            /\ Len(rs) < last.args.top_n => leftOut = {}

\* two results of equal score, the first of them not the first of the catalog,
\* and a survivor left out
C4_Witness ==
    /\ RecommendReturned
    /\ Len(last.outcome.value) >= 2
    /\ last.outcome.value[1].score = last.outcome.value[2].score
    /\ last.outcome.value[1].tool > 1
    /\ Survivors(Held, last.args) \ ReturnedPositions(last.outcome.value) # {}

(***************************************************************************)
(* Presence of keywords, read off the text.                                *)
(***************************************************************************)
KeywordPresent(kw, text) ==
    \E off \in 0..(Len(text) - Len(kw)) :
        \A j \in DOMAIN kw : LowerChar(text[off + j]) = LowerChar(kw[j])

\* how many of the keywords of the c-th category are present
PresentCount(c, text) ==
    Cardinality({k \in DOMAIN CATEGORY_KEYWORDS[c].keywords :
                    KeywordPresent(CATEGORY_KEYWORDS[c].keywords[k], text)})

\* the place of a category name in the declaration
Declared(name) == CHOOSE c \in DOMAIN CATEGORY_KEYWORDS : CATEGORY_KEYWORDS[c].category = name

(***************************************************************************)
(* C5.  classify_scenario returns the categories that have a keyword       *)
(* present in the text as a substring, letter case ignored, each once,     *)
(* the category with more of its keywords present first (a keyword counts  *)
(* once however often it occurs) and categories with equally many in the   *)
(* declaration order of CATEGORY_KEYWORDS; <<"foundation">> when no        *)
(* category has a keyword present.                                         *)
(***************************************************************************)
C5_ClassifyRanksByPresence ==
    last.op = "classify_scenario" =>
        LET out == last.outcome.value
            present == {c \in DOMAIN CATEGORY_KEYWORDS : PresentCount(c, last.text) > 0}
        IN  /\ last.outcome.kind = "return"
            /\ present = {} => out = <<"foundation">>
            /\ present # {} =>
                  /\ Range(out) = {CATEGORY_KEYWORDS[c].category : c \in present}
                  /\ Len(out) = Cardinality(present)
                  /\ \A i \in DOMAIN out, j \in DOMAIN out :
                        i < j =>
                          LET ci == Declared(out[i])
                              cj == Declared(out[j])
                          IN  \/ PresentCount(ci, last.text) > PresentCount(cj, last.text)
                              \/ /\ PresentCount(ci, last.text) = PresentCount(cj, last.text)
                                 /\ ci < cj

\* a text in which a keyword occurs twice and written in another case, and
\* which puts a category declared later first because more of its keywords
\* are present
C5_Witness ==
    /\ last.op = "classify_scenario"
    /\ Len(last.outcome.value) >= 2
    /\ Declared(last.outcome.value[1]) > Declared(last.outcome.value[2])
    /\ \E i \in DOMAIN last.text, j \in DOMAIN last.text :
          /\ i + 3 <= j
          /\ j + 2 <= Len(last.text)
          /\ SubSeq(last.text, i, i + 2) = <<"a", "P", "i">>
          /\ SubSeq(last.text, j, j + 2) = <<"a", "P", "i">>

(***************************************************************************)
(* Well-formed sources.                                                    *)
(***************************************************************************)
HasRequiredFields(t) ==
    /\ {"id", "name", "category", "scores"} \subseteq DOMAIN t
    /\ "overall" \in DOMAIN t.scores

\* what the document holds under tools; a document without the key holds no records
SourceTools(src) == IF "tools" \in DOMAIN src.data THEN src.data.tools ELSE PyList(<<>>)

\* the records of the source
SourceRecords(src) == IF SourceTools(src).type = "list" THEN SourceTools(src).items ELSE <<>>

\* the source is a mapping and each of its records has the required fields
WellFormedSource(src) ==
    /\ src.file = "yaml"
    /\ src.root = "dict"
    /\ \A i \in DOMAIN SourceRecords(src) : HasRequiredFields(SourceRecords(src)[i])

(***************************************************************************)
(* C6.  A load attempt fails when the source is missing, malformed or      *)
(* holds a record without id, name, category or scores.overall; after it   *)
(* either the load failed and no catalog is held, or every record of the   *)
(* source is held and every held record has the required fields.           *)
(***************************************************************************)
C6_LoadAllOrNothing ==
    status # "new" =>
        \/ /\ status = "failed"
           /\ ~WellFormedSource(source)
           /\ tools = PyNone
        \/ /\ status = "loaded"
           /\ WellFormedSource(source)
           /\ tools = SourceTools(source)

\* what the constructor does keep: it fails exactly when there is no file, no
\* YAML or no mapping, and otherwise holds whatever is under tools
C6_LoadAsCoded ==
    status # "new" =>
        \/ /\ status = "failed"
           /\ source.file # "yaml" \/ source.root # "dict"
        \/ /\ status = "loaded"
           /\ source.file = "yaml" /\ source.root = "dict"
           /\ tools = SourceTools(source)

(***************************************************************************)
(* C7.  The score of every result is the reference score of its record:    *)
(* overall; times 0.7 when the record has no free tier and its cheapest    *)
(* paid plan is above the ceiling, else plus 0.3 when it has a free tier;  *)
(* plus 0.2 when the record's technical ordinal is at most the user's,     *)
(* minus 0.5 when it is more than one above; plus value * 0.1.  No         *)
(* clamping.  The two reasons are recorded exactly with the two bonuses.   *)
(***************************************************************************)
C7_ScoreIsReference ==
    RecommendReturned =>
        \A k \in DOMAIN last.outcome.value :
            LET r == last.outcome.value[k]
            IN  /\ r.score = RefScore(Held[r.tool], last.args)
                /\ r.match_reasons = RefReasons(Held[r.tool], last.args)

\* a result whose record has a free tier and a cheapest paid plan above the
\* ceiling, beside a result that took the 0.7 penalty
C7_Witness ==
    /\ RecommendReturned
    /\ \E k \in DOMAIN last.outcome.value :
          LET t == Held[last.outcome.value[k].tool]
          IN  /\ RecordHasFreeTier(t)
              /\ RecordMinPaidPrice(t) > Ceiling(last.args.budget)
    /\ \E k \in DOMAIN last.outcome.value :
          /\ OverBudget(Held[last.outcome.value[k].tool], last.args)
          /\ TechPenalty(Held[last.outcome.value[k].tool], last.args)

(***************************************************************************)
(* Arguments and records with the defaults written out.                    *)
(***************************************************************************)
KnownBudgets == {"free", "low", "medium", "high"}

KnownLevels == {"beginner", "intermediate", "advanced"}

DefaultedArgs(args) ==
    [args EXCEPT !.budget = IF @ \in KnownBudgets THEN @ ELSE "medium",
                 !.tech_level = IF @ \in KnownLevels THEN @ ELSE "beginner"]

DefaultedRecord(t) ==
    IF "technical_level" \in DOMAIN t /\ t.technical_level \in KnownLevels THEN t
    ELSE [k \in DOMAIN t \cup {"technical_level"} |->
            IF k = "technical_level" THEN "beginner" ELSE t[k]]

DefaultedCatalog(ts) ==
    IF ts.type = "list" THEN PyList([i \in DOMAIN ts.items |-> DefaultedRecord(ts.items[i])])
    ELSE ts

(***************************************************************************)
(* C8.  A budget or tech_level that is not recognized does not make        *)
(* recommend fail: the call ends as the call with "medium" (ceiling 50,    *)
(* no hard filter) and "beginner" (ordinal 1) in their place ends, and as  *)
(* it ends on the catalog in which every absent or unrecognized            *)
(* technical_level reads "beginner": the same results, scores and reasons. *)
(***************************************************************************)
C8_UnrecognizedFallsBackToDefaults ==
    last.op = "recommend" =>
        /\ last.outcome = recommend(tools, DefaultedArgs(last.args)).outcome
        /\ last.outcome = recommend(DefaultedCatalog(tools), last.args).outcome

\* a call with an unrecognized budget and an unrecognized tech_level that
\* returned a record without free tier whose technical_level is unrecognized
\* and a record without technical_level
C8_Witness ==
    /\ RecommendReturned
    /\ last.args.budget \notin KnownBudgets
    /\ last.args.tech_level \notin KnownLevels
    /\ \E k \in DOMAIN last.outcome.value :
          LET t == Held[last.outcome.value[k].tool]
          IN  /\ ~RecordHasFreeTier(t)
              /\ "technical_level" \in DOMAIN t
              /\ t.technical_level \notin KnownLevels
    /\ \E k \in DOMAIN last.outcome.value :
          "technical_level" \notin DOMAIN Held[last.outcome.value[k].tool]

(***************************************************************************)
(* Records by id.                                                          *)
(***************************************************************************)
PositionsWithId(tool_id) ==
    {i \in DOMAIN Held : "id" \in DOMAIN Held[i] /\ Held[i].id = tool_id}

(***************************************************************************)
(* C9.  get_tool_by_id never raises: it returns the first record whose id  *)
(* is the argument, and None when no record has that id, also on an empty  *)
(* catalog.                                                                *)
(***************************************************************************)
C9_FindByIdNeverRaises ==
    last.op = "get_tool_by_id" =>
        LET found == PositionsWithId(last.tool_id)
        IN  /\ last.outcome.kind = "return"
            /\ found = {} => last.outcome.value = PyNone
            /\ found # {} =>
                  /\ last.outcome.value.type = "dict"
                  /\ last.outcome.value.at \in found
                  /\ \A i \in found : last.outcome.value.at <= i

\* C9 for the calls that return
C9_FindByIdWhenReturned ==
    (last.op = "get_tool_by_id" /\ last.outcome.kind = "return") =>
        LET found == PositionsWithId(last.tool_id)
        IN  /\ found = {} => last.outcome.value = PyNone
            /\ found # {} =>
                  /\ last.outcome.value.type = "dict"
                  /\ last.outcome.value.at \in found
                  /\ \A i \in found : last.outcome.value.at <= i

(***************************************************************************)
(* C10.  Whatever calls were made, the catalog held is the catalog as it   *)
(* was loaded, records, order and fields, and a recommend call returns     *)
(* what the same call returns on the catalog as loaded: scores and reasons *)
(* are never written into a record.                                        *)
(***************************************************************************)
C10_CatalogUntouched ==
    status = "loaded" =>
        /\ tools = loaded
        /\ last.op = "recommend" => last.outcome = recommend(loaded, last.args).outcome

\* after an earlier recommend call, a recommend call has returned results
\* whose scores differ from the overall score of their records
C10_Witness ==
    /\ recommended
    /\ RecommendReturned
    /\ Len(last.outcome.value) >= 2
    /\ \A k \in DOMAIN last.outcome.value :
          last.outcome.value[k].score # Held[last.outcome.value[k].tool].scores.overall

(***************************************************************************)
(* The chat wizard.                                                        *)
(***************************************************************************)
\* the session as the first run of the script leaves it
FreshSession ==
    [step |-> 0,
     messages |-> <<[role |-> "assistant", content |-> WELCOME_MSG]>>,
     user_task |-> <<>>, categories |-> <<>>, budget |-> "medium",
     tech_level |-> "beginner", results |-> <<>>]

\* recommend(categories, budget, tech_level, top_n=3) for what the user
\* entered and clicked in this session
WizardRecommendation ==
    recommend(loaded,
              [categories |-> classify_scenario(chosen.task), budget |-> chosen.budget,
               tech_level |-> chosen.tech_level, top_n |-> WizardTopN]).outcome

\* the session holds what the user entered and clicked
SessionHoldsChoices ==
    /\ session_state.user_task = chosen.task
    /\ session_state.categories = classify_scenario(chosen.task)
    /\ session_state.budget = chosen.budget
    /\ session_state.tech_level = chosen.tech_level

StepMove ==
    LET from == session_state.step
        to   == session_state'.step
    IN  \/ to = from
        \/ <<from, to>> \in {<<0, 2>>, <<2, 3>>, <<3, 4>>}
        \/ to = 0 /\ last'.op = "reset"

\* C11 (state part). results is non-empty only when step is 4, and at step 4
\* it equals recommend(categories, budget, tech_level, top_n=3) for the
\* categories classified from the stored user_task and the budget and the
\* technical level chosen in this session.
C11_ResultsAreTheRecommendation ==
    /\ session_state.results # <<>> => session_state.step = 4
    /\ session_state.step = 4 =>
         /\ SessionHoldsChoices
         /\ WizardRecommendation.kind = "return"
         /\ session_state.results = WizardRecommendation.value

\* C11 (as the code has it). As above, except that when recommend raises
\* the wizard is at step 4 with the results still empty.
C11_ResultsWhenRecommendReturns ==
    /\ session_state.results # <<>> => session_state.step = 4
    /\ session_state.step = 4 =>
         /\ SessionHoldsChoices
         /\ session_state.results =
              IF WizardRecommendation.kind = "return"
              THEN WizardRecommendation.value ELSE <<>>

\* C11 (steps). The step is 0, 2, 3 or 4, never 1.
C11_StepIsNeverOne == session_state.step \in {0, 2, 3, 4}

\* C11 (steps). The step only moves 0 -> 2 -> 3 -> 4, or back to 0 by reset.
C11_StepMoves == [][StepMove]_vars

\* C11 (reset). reset leaves the session as the first run of the script
\* left it: step, messages, user_task, categories, budget, tech_level and
\* results are at their defaults, messages with the welcome message the
\* next run adds.
C11_ResetRestores ==
    [][ResetButton => session_state' = FreshSession /\ chosen' = NothingChosen]_vars

\* C11 (reset). The first run of the script leaves the session fresh.
C11_OpenPageIsFresh ==
    (status = "loaded" /\ last = NoCall) => session_state = FreshSession

\* C11. Over any sequence of user events the step only moves
\* 0 -> 2 -> 3 -> 4 or back to 0 by reset, step 1 is never reached, results
\* is non-empty only at step 4 where it equals the recommendation for what
\* the user entered and clicked, and reset restores the session.
C11_ChatWizard ==
    /\ []C11_StepIsNeverOne
    /\ C11_StepMoves
    /\ []C11_ResultsAreTheRecommendation
    /\ C11_ResetRestores

\* A session at step 4 whose recommendation raised: the results are empty.
C11_Witness ==
    /\ session_state.step = 4
    /\ last.op = "handle_tech_input"
    /\ last.outcome.kind = "raise"
    /\ session_state.results = <<>>

\* A session at step 4 that holds a full list of WizardTopN results.
C11_WitnessReturned ==
    /\ session_state.step = 4
    /\ session_state.results # <<>>
    /\ Len(session_state.results) = WizardTopN

=============================================================================
